---- MODULE Spec2Model ----
(***************************************************************************)
(* Model of the XsltTransformer component                                  *)
(* (src/src/app/components/XsltTransformer.tsx): two persisted text        *)
(* buffers, the debounced transformation pipeline and the toolbar actions. *)
(*                                                                         *)
(* A text is a sequence of markup tokens, the empty sequence being the     *)
(* empty string.  Strings the component builds by concatenation (error     *)
(* messages, serialized output) are sequences of string chunks.            *)
(***************************************************************************)
EXTENDS Integers, Sequences, FiniteSets, TLC

VARIABLES
    xmlCode,          \* state of useLocalStorage("xmlCode", sampleXML)
    xsltCode,         \* state of useLocalStorage("xsltCode", sampleXSLT)
    storage,          \* window.localStorage, the two keys the component uses
    writable,         \* whether the host's storage accepts writes (quota, private mode)
    output,           \* useState<string>("")
    error,            \* useState<string | null>(null)
    timer,            \* the debounced callback's single pending timer
    funcRef,          \* the buffer values the debounced callback closes over
    exported,         \* content of the file handleDownload offered since the
                      \* latest pipeline run, "" if none (history)
    sinceChange,      \* ms since the effect last scheduled a run (clock)
    runsSinceChange,  \* pipeline runs executed since that moment (history)
    changesSinceRun,  \* buffer changes since the latest pipeline run (history)
    lastRun           \* the latest pipeline run: the host's behaviour, the host
                      \* calls made, the changes it covers (history)

vars == <<xmlCode, xsltCode, storage, writable, output, error, timer, funcRef, exported,
          sinceChange, runsSinceChange, changesSinceRun, lastRun>>

----------------------------------------------------------------------------
(* Bounds and program constants *)

\* clock ticks per quiet period (resolution of the modelled time)
Granularity == 3

\* buffer changes counted per burst (the count saturates)
MaxBurst == 2

\* the debounce wait passed to useDebouncedCallback
QuietPeriod == 300

TickMs == QuietPeriod \div Granularity

MaxClock == QuietPeriod + TickMs

Min(a, b) == IF a < b THEN a ELSE b

----------------------------------------------------------------------------
(* Texts *)

Open(n) == [kind |-> "open", name |-> n]

Close(n) == [kind |-> "close", name |-> n]

Empty(n) == [kind |-> "empty", name |-> n]

Quote == [kind |-> "quote", name |-> "\""]

EmptyString == <<>>

\* <catalog><book>..</book><book>..</book></catalog>
sampleXML ==
    <<Open("catalog"), Open("book"), Close("book"),
      Open("book"), Close("book"), Close("catalog")>>

\* <xsl:stylesheet><xsl:template><html>..</html></xsl:template></xsl:stylesheet>
sampleXSLT ==
    <<Open("xsl:stylesheet"), Open("xsl:template"), Open("html"), Close("html"),
      Close("xsl:template"), Close("xsl:stylesheet")>>

\* <a><b></a> : not well-formed
UnclosedTag == <<Open("a"), Open("b"), Close("a")>>

\* <a><b/></a> : a second well-formed document
SmallDocument == <<Open("a"), Empty("b"), Close("a")>>

\* <parsererror/> : well-formed, its root element is named parsererror
ParsererrorElement == <<Empty("parsererror")>>

\* a well-formed stylesheet whose template holds a literal <parsererror/> element
ParsererrorStylesheet ==
    <<Open("xsl:stylesheet"), Open("xsl:template"), Empty("parsererror"),
      Close("xsl:template"), Close("xsl:stylesheet")>>

\* the values the XML editor hands to onChange={setXmlCode}
XmlTexts == {EmptyString, sampleXML, SmallDocument, UnclosedTag, ParsererrorElement}

\* the values the XSLT editor hands to onChange={setXsltCode}
XsltTexts == {EmptyString, sampleXSLT, UnclosedTag, ParsererrorStylesheet}

----------------------------------------------------------------------------
(* Host platform: DOMParser, XSLTProcessor, XMLSerializer, JSON *)

RECURSIVE Scan(_, _, _, _)
\* one pass over the tokens: properly nested tags and exactly one root element
Scan(text, i, stack, roots) ==
    IF i > Len(text)
    THEN stack = <<>> /\ roots = 1
    ELSE LET t == text[i] IN
         CASE t.kind = "open" ->
                  /\ ~(stack = <<>> /\ roots >= 1)
                  /\ Scan(text, i + 1, Append(stack, t.name), roots)
           [] t.kind = "empty" ->
                  IF stack = <<>>
                  THEN roots = 0 /\ Scan(text, i + 1, stack, 1)
                  ELSE Scan(text, i + 1, stack, roots)
           [] t.kind = "close" ->
                  /\ stack # <<>>
                  /\ stack[Len(stack)] = t.name
                  /\ Scan(text, i + 1, SubSeq(stack, 1, Len(stack) - 1),
                          IF Len(stack) = 1 THEN roots + 1 ELSE roots)
           [] OTHER -> FALSE

WellFormed(text) == Scan(text, 1, <<>>, 0)

Element(n, t) == [name |-> n, textContent |-> t]

\* the elements of a well-formed text, in document order
Elements(text) ==
    LET tags == SelectSeq(text, LAMBDA t : t.kind \in {"open", "empty"})
    IN  [i \in 1..Len(tags) |-> Element(tags[i].name, "")]

ParserDiagnostic == "XML Parsing Error"

\* DOMParser.parseFromString(text, "application/xml"): never throws; a text that
\* is not well-formed gives a document holding a parsererror element
parseFromString(text) ==
    IF WellFormed(text)
    THEN [elements |-> Elements(text)]
    ELSE [elements |-> <<Element("parsererror", ParserDiagnostic)>>]

\* variant: the tag name is misspelt, so no marker is ever found
getElementsByTagNameTypo(doc, n) == SelectSeq(doc.elements, LAMBDA e : e.name = "parseerror")

getElementsByTagName(doc, n) == SelectSeq(doc.elements, LAMBDA e : e.name = n)

\* how the host answers the calls of one run
HostBehaviours ==
    {"accepts", "parseThrows", "importThrows", "transformThrows", "nullResult",
     "serializeThrows"}

\* the message of the exception the host throws
HostMessage(host) ==
    CASE host = "parseThrows" -> "parseFromString failed"
      [] host = "importThrows" -> "importStylesheet failed"
      [] host = "transformThrows" -> "transformToDocument failed"
      [] host = "serializeThrows" -> "serializeToString failed"
      [] OTHER -> "not a Node"

NoDocument == [elements |-> <<>>]

\* the result tree of the engine, determined by the stylesheet and document trees
ResultDocument(xsltDoc, xmlDoc) ==
    [elements |-> <<Element("#result", "")>> \o xsltDoc.elements \o xmlDoc.elements]

\* XSLTProcessor.transformToDocument on a fresh processor holding xsltDoc
transformToDocument(xsltDoc, xmlDoc, host) ==
    CASE host = "transformThrows" -> [throws |-> TRUE, null |-> TRUE, doc |-> NoDocument]
      [] host = "nullResult" -> [throws |-> FALSE, null |-> TRUE, doc |-> NoDocument]
      [] OTHER -> [throws |-> FALSE, null |-> FALSE,
                   doc |-> ResultDocument(xsltDoc, xmlDoc)]

\* XMLSerializer.serializeToString: one chunk of markup per element; throws on
\* a value that is no node
serializeToString(result, host) ==
    IF result.null \/ host = "serializeThrows"
    THEN [throws |-> TRUE, value |-> EmptyString]
    ELSE [throws |-> FALSE,
          value |-> [i \in 1..Len(result.doc.elements) |-> result.doc.elements[i].name]]

JSONstringify(text) == <<Quote>> \o text \o <<Quote>>

\* JSON.parse: a quoted string decodes to its content, anything else throws
JSONparse(item) ==
    IF Len(item) >= 2 /\ item[1] = Quote /\ item[Len(item)] = Quote
    THEN [throws |-> FALSE, value |-> SubSeq(item, 2, Len(item) - 1)]
    ELSE [throws |-> TRUE, value |-> EmptyString]

----------------------------------------------------------------------------
(* useLocalStorage *)

\* localStorage.getItem gives null for a missing key
NoItem == [present |-> FALSE, item |-> EmptyString]

Item(s) == [present |-> TRUE, item |-> s]

\* an entry that is not JSON
CorruptItem == Item(<<Open("a")>>)

StoredItems(texts) ==
    {NoItem, CorruptItem, Item(EmptyString)} \cup {Item(JSONstringify(t)) : t \in texts}

\* what an earlier session can have left under the two keys; a storage that
\* rejects every write holds no entry of the component
Storages(accepting) ==
    IF accepting
    THEN {[xmlCode |-> x, xsltCode |-> y] : x \in StoredItems(XmlTexts), y \in StoredItems(XsltTexts)}
    ELSE {[xmlCode |-> NoItem, xsltCode |-> NoItem]}

\* variant: the decoded value is tested for truthiness, not the entry
InitialStateTruthy(entry, initialValue) ==
    IF entry.present /\ entry.item # EmptyString
    THEN LET parsed == JSONparse(entry.item)
         IN  IF parsed.throws \/ parsed.value = EmptyString
             THEN initialValue ELSE parsed.value
    ELSE initialValue

\* the useState initializer
InitialState(entry, initialValue) ==
    IF entry.present /\ entry.item # EmptyString
    THEN LET parsed == JSONparse(entry.item)
         IN  IF parsed.throws THEN initialValue ELSE parsed.value
    ELSE initialValue

\* variant: the value is stored without JSON.stringify
setItemUnencoded(entry, value, accepted) ==
    IF accepted THEN Item(value) ELSE entry

\* localStorage.setItem inside setValue's try block; a throw (quota) is swallowed
setItem(entry, value, accepted) ==
    IF accepted THEN Item(JSONstringify(value)) ELSE entry

----------------------------------------------------------------------------
(* The pipeline *)

Null == [null |-> TRUE, message |-> <<>>]

Message(parts) == [null |-> FALSE, message |-> parts]

\* variant: && in place of ||
BothEmpty(xml, xslt) == xml = EmptyString /\ xslt = EmptyString

\* if (!xmlCode || !xsltCode)
EitherEmpty(xml, xslt) == xml = EmptyString \/ xslt = EmptyString

\* setOutput(""); setError(null); return
ShortCircuit(ui) ==
    [output |-> EmptyString, error |-> Null, calls |-> <<>>]

\* variant: the catch block forgets setOutput("")
CaughtKeepsOutput(ui, message, calls) ==
    [output |-> ui.output,
     error  |-> Message(<<"Transformation Error: ">> \o message),
     calls  |-> calls]

\* variant: no catch block, the exception leaves the callback
Uncaught(ui, message, calls) ==
    [output |-> ui.output, error |-> ui.error, calls |-> calls]

\* the catch block: setError(`Transformation Error: ${e.message}`); setOutput("")
Caught(ui, message, calls) ==
    [output |-> EmptyString,
     error  |-> Message(<<"Transformation Error: ">> \o message),
     calls  |-> calls]

\* variant: the success path forgets setError(null)
SucceededKeepsError(ui, resultString, calls) ==
    [output |-> resultString, error |-> ui.error, calls |-> calls]

\* setOutput(resultString); setError(null)
Succeeded(ui, resultString, calls) ==
    [output |-> resultString, error |-> Null, calls |-> calls]

\* variant: the null check is missing
NeverFalsy(result) == FALSE

\* if (!resultDoc)
Falsy(result) == result.null

NullResultMessage ==
    "Transformation failed. The result document is null. Check XSLT for errors."

\* the body of the debounced callback, run on the state ui = (output, error)
\* for the buffer values it closes over
performTransformation(ui, xml, xslt, host) ==
    IF EitherEmpty(xml, xslt) THEN ShortCircuit(ui)
    ELSE IF host = "parseThrows"
    THEN Caught(ui, <<HostMessage(host)>>, <<"parseFromString">>)
    ELSE
    LET xmlDoc  == parseFromString(xml)
        xsltDoc == parseFromString(xslt)
        parsed  == <<"parseFromString", "parseFromString">>
        xmlErrors  == getElementsByTagName(xmlDoc, "parsererror")
        xsltErrors == getElementsByTagName(xsltDoc, "parsererror")
        imported    == parsed \o <<"importStylesheet">>
        transformed == imported \o <<"transformToDocument">>
        serialized  == transformed \o <<"serializeToString">>
    IN  IF Len(xmlErrors) > 0
        THEN Caught(ui, <<"Invalid XML: ", xmlErrors[1].textContent>>, parsed)
        ELSE IF Len(xsltErrors) > 0
        THEN Caught(ui, <<"Invalid XSLT: ", xsltErrors[1].textContent>>, parsed)
        ELSE IF host = "importThrows"
        THEN Caught(ui, <<HostMessage(host)>>, imported)
        ELSE
        LET resultDoc == transformToDocument(xsltDoc, xmlDoc, host)
        IN  IF resultDoc.throws
            THEN Caught(ui, <<HostMessage(host)>>, transformed)
            ELSE IF Falsy(resultDoc)
            THEN Caught(ui, <<NullResultMessage>>, transformed)
            ELSE
            LET resultString == serializeToString(resultDoc, host)
            IN  IF resultString.throws
                THEN Caught(ui, <<HostMessage(host)>>, serialized)
                ELSE Succeeded(ui, resultString.value, serialized)

----------------------------------------------------------------------------
(* Debounce and effect *)

NoTimer == [pending |-> FALSE, remaining |-> 0]

\* variant: a call while a timer is pending keeps that timer's deadline
debouncedKeepsDeadline(t) ==
    IF t.pending THEN t ELSE [pending |-> TRUE, remaining |-> QuietPeriod]

\* a call of the debounced function: the quiet period starts again
debounced(t) == [pending |-> TRUE, remaining |-> QuietPeriod]

\* variant: no dependency array, the effect runs after every render
useEffectEveryRender(depsChanged, t) == debounced(t)

\* variant: the effect is missing
useEffectNever(depsChanged, t) == t

\* the effect runs after a render in which xmlCode or xsltCode changed
useEffect(depsChanged, t) == IF depsChanged THEN debounced(t) ELSE t

\* variant: the callback is memoised once and keeps its first closure
RenderStale(old, xml, xslt) == old

\* every render hands the debounced function a callback closing over the
\* buffer values of that render
Render(old, xml, xslt) == [xml |-> xml, xslt |-> xslt]

\* what a set of buffer writes does to the rest of the state
Commit(newXml, newXslt) ==
    LET changed == newXml # xmlCode \/ newXslt # xsltCode
    IN  /\ xmlCode' = newXml
        /\ xsltCode' = newXslt
        /\ funcRef' = Render(funcRef, newXml, newXslt)
        /\ timer' = useEffect(changed, timer)
        /\ sinceChange' = IF changed THEN 0 ELSE sinceChange
        /\ runsSinceChange' = IF changed THEN 0 ELSE runsSinceChange
        /\ changesSinceRun' = IF changed THEN Min(MaxBurst, changesSinceRun + 1)
                                         ELSE changesSinceRun
        /\ UNCHANGED <<output, error, exported, lastRun, writable>>

----------------------------------------------------------------------------
(* Initial state: first render and mount effect *)

\* what the preview shows: the error if there is one, else the output
Shown(ui) ==
    IF ~ui.error.null THEN "error"
    ELSE IF ui.output # EmptyString THEN "output" ELSE "empty"

NoRun == [ran |-> FALSE, host |-> "accepts", calls |-> <<>>, changes |-> 0,
          before |-> "empty"]

Init ==
    /\ writable \in BOOLEAN
    /\ storage \in Storages(writable)
    /\ xmlCode = InitialState(storage.xmlCode, sampleXML)
    /\ xsltCode = InitialState(storage.xsltCode, sampleXSLT)
    /\ output = EmptyString
    /\ error = Null
    /\ funcRef = Render([xml |-> EmptyString, xslt |-> EmptyString], xmlCode, xsltCode)
    /\ timer = useEffect(TRUE, NoTimer)
    /\ exported = EmptyString
    /\ sinceChange = 0
    /\ runsSinceChange = 0
    /\ changesSinceRun = 0
    /\ lastRun = NoRun

----------------------------------------------------------------------------
(* Actions *)

\* the XML editor's onChange={setXmlCode}
EditXml ==
    \E v \in XmlTexts :
        /\ storage' = [storage EXCEPT !.xmlCode = setItem(@, v, writable)]
        /\ Commit(v, xsltCode)

\* the XSLT editor's onChange={setXsltCode}
EditXslt ==
    \E v \in XsltTexts :
        /\ storage' = [storage EXCEPT !.xsltCode = setItem(@, v, writable)]
        /\ Commit(xmlCode, v)

\* variant: only the XML buffer is cleared
handleClearXmlOnly ==
    /\ storage' = [storage EXCEPT !.xmlCode = setItem(@, EmptyString, writable)]
    /\ Commit(EmptyString, xsltCode)

handleClear ==
    /\ storage' = [storage EXCEPT !.xmlCode = setItem(@, EmptyString, writable),
                                  !.xsltCode = setItem(@, EmptyString, writable)]
    /\ Commit(EmptyString, EmptyString)

handleLoadSamples ==
    /\ storage' = [storage EXCEPT !.xmlCode = setItem(@, sampleXML, writable),
                                  !.xsltCode = setItem(@, sampleXSLT, writable)]
    /\ Commit(sampleXML, sampleXSLT)

\* variant: the Download button is never disabled
handleDownloadAlways ==
    /\ exported' = output
    /\ UNCHANGED <<xmlCode, xsltCode, storage, writable, output, error, timer, funcRef,
                   sinceChange, runsSinceChange, changesSinceRun, lastRun>>

\* the Download button is disabled={!output || !!error}
handleDownload ==
    /\ ~(output = EmptyString \/ ~error.null)
    /\ exported' = output
    /\ UNCHANGED <<xmlCode, xsltCode, storage, writable, output, error, timer, funcRef,
                   sinceChange, runsSinceChange, changesSinceRun, lastRun>>

\* time passes; a timer that has run out fires before more time passes
Tick ==
    /\ ~(timer.pending /\ timer.remaining = 0)
    /\ sinceChange < MaxClock
    /\ sinceChange' = Min(MaxClock, sinceChange + TickMs)
    /\ timer' = IF timer.pending
                THEN [timer EXCEPT !.remaining = @ - TickMs]
                ELSE timer
    /\ UNCHANGED <<xmlCode, xsltCode, storage, writable, output, error, funcRef, exported,
                   runsSinceChange, changesSinceRun, lastRun>>

\* the surviving timer fires and runs the callback; the render that follows
\* setOutput and setError finds the effect's dependencies unchanged
TimerExpired ==
    /\ timer.pending /\ timer.remaining = 0
    /\ \E host \in HostBehaviours :
        LET r == performTransformation([output |-> output, error |-> error],
                                       funcRef.xml, funcRef.xslt, host)
        IN  /\ output' = r.output
            /\ error' = r.error
            /\ lastRun' = [ran |-> TRUE, host |-> host, calls |-> r.calls,
                           changes |-> changesSinceRun,
                           before |-> Shown([output |-> output, error |-> error])]
    /\ timer' = useEffect(FALSE, NoTimer)
    /\ runsSinceChange' = Min(2, runsSinceChange + 1)
    /\ changesSinceRun' = 0
    /\ exported' = EmptyString
    /\ UNCHANGED <<xmlCode, xsltCode, storage, writable, funcRef, sinceChange>>

Next ==
    \/ EditXml
    \/ EditXslt
    \/ handleClear
    \/ handleLoadSamples
    \/ handleDownload
    \/ Tick
    \/ TimerExpired

Spec == Init /\ [][Next]_vars

----------------------------------------------------------------------------
(* Properties *)

Display == [output |-> output, error |-> error]

\* what a run on the current buffers displays when the host behaves as host
ResultFor(host) ==
    LET r == performTransformation(Display, xmlCode, xsltCode, host)
    IN  [output |-> r.output, error |-> r.error]

\* a run has executed since the buffers last changed
RunDone == runsSinceChange >= 1

BothNonEmpty == xmlCode # EmptyString /\ xsltCode # EmptyString

Invoked(op) == \E i \in 1..Len(lastRun.calls) : lastRun.calls[i] = op

Failure(message) == Message(<<"Transformation Error: ">> \o message)

\* C1: a burst of buffer changes, each less than the quiet period after the one
\* before, leads to exactly one pipeline run: at most one run since the last
\* change, none before a full quiet period has passed since that change, one
\* once it has passed, and what the run displays is the result for the buffer
\* values as they are when it fires.
C1_OneRunPerBurst ==
    /\ runsSinceChange <= 1
    /\ runsSinceChange = 1 =>
           /\ sinceChange >= QuietPeriod
           /\ Display = ResultFor(lastRun.host)
    /\ sinceChange > QuietPeriod => runsSinceChange = 1

\* a single run that covers a burst of at least two buffer changes
C1_Witness ==
    /\ runsSinceChange = 1
    /\ lastRun.changes >= 2
    /\ output # EmptyString

\* C2: more than one quiet period after the last buffer change no run is
\* pending and the displayed (output, error) pair is the pipeline result for
\* the current buffers; it stays so until the next change.
C2_SettlesWithinQuietPeriod ==
    sinceChange > QuietPeriod =>
        /\ ~timer.pending
        /\ lastRun.ran
        /\ Display = ResultFor(lastRun.host)

\* the display has settled to a failure after the user edited and stopped
C2_Witness ==
    /\ sinceChange > QuietPeriod
    /\ lastRun.changes >= 1
    /\ ~error.null

\* C3: output is never non-empty while error is non-null.
C3_OutputErrorExclusive == ~(output # EmptyString /\ ~error.null)

\* a rendered output is shown where an error message was shown before the run
C3_Witness ==
    /\ RunDone
    /\ lastRun.before = "error"
    /\ output # EmptyString
    /\ error.null

\* C4: a run executed while either buffer is empty ends with output "" and
\* error null, makes no host call at all, and running again in that state
\* changes nothing, however the host behaves.
C4_EmptyBufferShortCircuits ==
    RunDone /\ (xmlCode = EmptyString \/ xsltCode = EmptyString) =>
        /\ output = EmptyString
        /\ error = Null
        /\ lastRun.calls = <<>>
        /\ \A host \in HostBehaviours : ResultFor(host) = Display

\* a run on an empty document buffer beside a malformed stylesheet, begun
\* while an error message was shown
C4_Witness ==
    /\ RunDone
    /\ xmlCode = EmptyString
    /\ xsltCode = UnclosedTag
    /\ lastRun.before = "error"

\* C5: a run on two non-empty well-formed texts that the host accepts ends in
\* Success: error null, output the serialization of the engine's result tree.
C5_WellFormedAcceptedSucceeds ==
    /\ RunDone /\ BothNonEmpty
    /\ WellFormed(xmlCode) /\ WellFormed(xsltCode)
    /\ lastRun.host = "accepts"
    =>
    /\ error = Null
    /\ output = serializeToString(
                    transformToDocument(parseFromString(xsltCode),
                                        parseFromString(xmlCode), "accepts"),
                    "accepts").value

\* C6: a run on non-empty buffers whose document text is not well-formed (the
\* parser returned a tree with a parsererror marker) ends in the Invalid XML
\* failure carrying the parser's diagnostic, whether or not the stylesheet is
\* well-formed, and makes no call beyond the two parses.
C6_MalformedXmlIsInvalidXml ==
    /\ RunDone /\ BothNonEmpty
    /\ ~WellFormed(xmlCode)
    /\ lastRun.host # "parseThrows"
    =>
    /\ error = Failure(<<"Invalid XML: ", ParserDiagnostic>>)
    /\ output = EmptyString
    /\ lastRun.calls = <<"parseFromString", "parseFromString">>

\* a run on a malformed document beside a malformed stylesheet
C6_Witness ==
    /\ RunDone
    /\ xmlCode = UnclosedTag
    /\ xsltCode = UnclosedTag
    /\ lastRun.host # "parseThrows"
    /\ ~error.null

\* C7: a run on non-empty buffers with a well-formed document and a stylesheet
\* that is not well-formed ends in the Invalid XSLT failure, and the engine is
\* not invoked.
C7_MalformedXsltIsInvalidXslt ==
    /\ RunDone /\ BothNonEmpty
    /\ WellFormed(xmlCode)
    /\ ~WellFormed(xsltCode)
    /\ lastRun.host # "parseThrows"
    =>
    /\ error = Failure(<<"Invalid XSLT: ", ParserDiagnostic>>)
    /\ lastRun.calls = <<"parseFromString", "parseFromString">>

\* C8: a run on two non-empty well-formed texts in which the engine returns a
\* null result document ends in the failure of the null check, whose message
\* is neither the Invalid XML nor the Invalid XSLT one, and the serializer is
\* not invoked.
C8_NullResultIsTransformFailed ==
    /\ RunDone /\ BothNonEmpty
    /\ WellFormed(xmlCode) /\ WellFormed(xsltCode)
    /\ Invoked("transformToDocument")
    /\ lastRun.host = "nullResult"
    =>
    /\ error = Failure(<<NullResultMessage>>)
    /\ error.message[2] \notin {"Invalid XML: ", "Invalid XSLT: "}
    /\ output = EmptyString
    /\ ~Invoked("serializeToString")

\* the engine returned null for the sample pair
C8_Witness ==
    /\ RunDone
    /\ xmlCode = sampleXML
    /\ xsltCode = sampleXSLT
    /\ Invoked("transformToDocument")
    /\ lastRun.host = "nullResult"

\* the step in which the pending timer fires and the pipeline runs
RunStep == timer.pending /\ ~timer'.pending

\* C9: every run that ends with an error leaves output empty, whatever output
\* was displayed before the run.
C9_FailureClearsOutput ==
    [][RunStep /\ ~error'.null => output' = EmptyString]_vars

\* a failure is displayed by a run that began with a non-empty output
C9_Witness ==
    /\ RunDone
    /\ lastRun.before = "output"
    /\ ~error.null
    /\ output = EmptyString

\* C10: whenever a run on non-empty buffers meets a failure (a parse error in
\* the document or in the stylesheet, a null result, an exception of the
\* host's parser, engine or serializer) the run ends with error set to a
\* message beginning with "Transformation Error: ", and the component goes on
\* accepting edits, each change scheduling a run.
C10_FailuresCaughtAtBoundary ==
    /\ RunDone /\ BothNonEmpty
    /\ \/ ~WellFormed(xmlCode)
       \/ ~WellFormed(xsltCode)
       \/ lastRun.host # "accepts"
    =>
    /\ ~error.null
    /\ Len(error.message) >= 2
    /\ error.message[1] = "Transformation Error: "
    /\ ENABLED (EditXml /\ timer'.pending)
    /\ ENABLED (EditXslt /\ timer'.pending)
    /\ ENABLED handleClear

\* the serializer threw and the run ended in the failure state
C10_Witness ==
    /\ RunDone
    /\ Invoked("serializeToString")
    /\ lastRun.host = "serializeThrows"
    /\ ~error.null

\* C11: no run is retried: once a run has completed and while no buffer has
\* changed since, no run is pending, and a step that executes a run after an
\* earlier one follows at least one buffer change.
C11_NoAutomaticRetry ==
    /\ [](lastRun.ran /\ changesSinceRun = 0 => ~timer.pending)
    /\ [][runsSinceChange' > runsSinceChange /\ lastRun.ran
              => changesSinceRun >= 1]_vars

\* time has passed after a failed run and nothing is pending
C11_Witness ==
    /\ lastRun.ran
    /\ changesSinceRun = 0
    /\ ~error.null
    /\ sinceChange > QuietPeriod
    /\ ~timer.pending

\* C12: a step that changes a buffer leaves one pending timer holding a full
\* quiet period and executes no run; a step that executes a run happens a
\* full quiet period after the last change, with the timer run out, and
\* leaves no timer pending behind it.
C12_CancelAndRestart ==
    [][/\ xmlCode' # xmlCode \/ xsltCode' # xsltCode
            => /\ timer' = [pending |-> TRUE, remaining |-> QuietPeriod]
               /\ lastRun' = lastRun
               /\ output' = output /\ error' = error
       /\ runsSinceChange' > runsSinceChange
            => /\ timer.pending /\ timer.remaining = 0
               /\ sinceChange >= QuietPeriod
               /\ ~timer'.pending]_vars

\* a second buffer change arrived while the run of the first was pending
C12_Witness ==
    /\ changesSinceRun >= 2
    /\ timer.pending
    /\ timer.remaining = QuietPeriod
    /\ lastRun.ran

InitialDisplay == [output |-> EmptyString, error |-> Null]

\* C13: what a run displays is the pipeline's result for the buffer values and
\* the host's answer alone: it is the result computed from the initial display,
\* and from a display holding an earlier output and an earlier error alike.
C13_ResultDependsOnBuffersOnly ==
    RunDone =>
        \A prev \in {InitialDisplay,
                     [output |-> <<"#result">>, error |-> Failure(<<"earlier">>)]} :
            LET r == performTransformation(prev, xmlCode, xsltCode, lastRun.host)
            IN  output = r.output /\ error = r.error

\* a rendered output displayed by a run that began with another output shown
C13_Witness ==
    /\ RunDone
    /\ lastRun.before = "output"
    /\ xmlCode = SmallDocument
    /\ output # EmptyString

\* C14 as stated: every step that changes a buffer leaves the JSON encoding of
\* the new value under that buffer's key.
C14_StorageFollowsBuffer ==
    [][/\ xmlCode' # xmlCode => storage'.xmlCode = Item(JSONstringify(xmlCode'))
       /\ xsltCode' # xsltCode => storage'.xsltCode = Item(JSONstringify(xsltCode'))]_vars

\* C14, amended: every step that changes a buffer leaves the JSON encoding of
\* the new value under that buffer's key when the storage accepts the write,
\* and leaves the entry as it was when the storage rejects it; an entry only
\* ever changes to the encoding of the buffer's value.
C14_StorageFollowsBufferWhenWritable ==
    [][/\ xmlCode' # xmlCode =>
              storage'.xmlCode = IF writable THEN Item(JSONstringify(xmlCode'))
                                             ELSE storage.xmlCode
       /\ xsltCode' # xsltCode =>
              storage'.xsltCode = IF writable THEN Item(JSONstringify(xsltCode'))
                                              ELSE storage.xsltCode
       /\ storage'.xmlCode # storage.xmlCode =>
              storage'.xmlCode = Item(JSONstringify(xmlCode'))
       /\ storage'.xsltCode # storage.xsltCode =>
              storage'.xsltCode = Item(JSONstringify(xsltCode'))]_vars

\* the XML buffer alone has changed and its entry holds the new value's encoding
C14_Witness ==
    /\ writable
    /\ storage.xsltCode = NoItem
    /\ changesSinceRun >= 1
    /\ xmlCode = UnclosedTag
    /\ storage.xmlCode = Item(JSONstringify(UnclosedTag))

\* no buffer has changed and no run has executed since the first render
AtStartup == ~lastRun.ran /\ changesSinceRun = 0

Decodable(entry) ==
    entry.present /\ Len(entry.item) >= 2
    /\ entry.item[1] = Quote /\ entry.item[Len(entry.item)] = Quote

Decoded(entry) == SubSeq(entry.item, 2, Len(entry.item) - 1)

\* C15: at startup each buffer holds the value decoded from its entry when the
\* entry exists and decodes, and the built-in sample otherwise; it is a text in
\* every case, and an entry holding the encoding of the empty string gives the
\* empty buffer.
C15_StartupFromStorage ==
    AtStartup =>
        /\ xmlCode = IF Decodable(storage.xmlCode)
                     THEN Decoded(storage.xmlCode) ELSE sampleXML
        /\ xsltCode = IF Decodable(storage.xsltCode)
                      THEN Decoded(storage.xsltCode) ELSE sampleXSLT
        /\ xmlCode \in XmlTexts /\ xsltCode \in XsltTexts
        /\ storage.xmlCode = Item(<<Quote, Quote>>) => xmlCode = EmptyString
        /\ storage.xsltCode = Item(<<Quote, Quote>>) => xsltCode = EmptyString

\* a persisted empty XML buffer beside a corrupt XSLT entry
C15_Witness ==
    /\ AtStartup
    /\ storage.xmlCode = Item(<<Quote, Quote>>)
    /\ xmlCode = EmptyString
    /\ storage.xsltCode = CorruptItem
    /\ xsltCode = sampleXSLT

\* C16: Download can be triggered exactly when error is null and output is
\* non-empty; the content it offers is the displayed output; the step leaves
\* buffers, storage, output, error and the pending timer as they were.
C16_DownloadReadsOutput ==
    /\ []((ENABLED handleDownload) <=> (error.null /\ output # EmptyString))
    /\ [](exported # EmptyString => exported = output /\ error.null)
    /\ [][exported' # exported /\ exported' # EmptyString
              => /\ exported' = output
                 /\ UNCHANGED <<xmlCode, xsltCode, storage, output, error, timer,
                                funcRef>>]_vars

\* a download offered while a run for changed buffers is pending
C16_Witness ==
    /\ exported # EmptyString
    /\ exported = output
    /\ timer.pending
    /\ changesSinceRun >= 1

\* C17: Clear makes both buffers empty and Load Samples makes them the sample
\* pair; neither step changes output or error or executes a run, and when it
\* changes a buffer it leaves one pending timer with a full quiet period whose
\* callback closes over both new values.
C17_ClearAndLoadSamples ==
    [][/\ handleClear =>
              /\ xmlCode' = EmptyString /\ xsltCode' = EmptyString
              /\ output' = output /\ error' = error /\ lastRun' = lastRun
              /\ funcRef' = [xml |-> EmptyString, xslt |-> EmptyString]
              /\ (xmlCode # EmptyString \/ xsltCode # EmptyString) =>
                     timer' = [pending |-> TRUE, remaining |-> QuietPeriod]
       /\ handleLoadSamples =>
              /\ xmlCode' = sampleXML /\ xsltCode' = sampleXSLT
              /\ output' = output /\ error' = error /\ lastRun' = lastRun
              /\ funcRef' = [xml |-> sampleXML, xslt |-> sampleXSLT]
              /\ (xmlCode # sampleXML \/ xsltCode # sampleXSLT) =>
                     timer' = [pending |-> TRUE, remaining |-> QuietPeriod]]_vars

\* Clear has just emptied both buffers in one change while an output is shown
C17_Witness ==
    /\ xmlCode = EmptyString
    /\ xsltCode = EmptyString
    /\ changesSinceRun = 1
    /\ output # EmptyString
    /\ timer.pending
    /\ timer.remaining = QuietPeriod

\* C18: whenever no run is pending, a run has executed and the displayed pair
\* is the pipeline result for the current buffers.
C18_FreshUnlessPending ==
    ~timer.pending => lastRun.ran /\ Display = ResultFor(lastRun.host)

\* the timer has just fired on edited buffers and an output is shown
C18_Witness ==
    /\ ~timer.pending
    /\ sinceChange = QuietPeriod
    /\ lastRun.changes >= 1
    /\ error.null
    /\ output # EmptyString

\* C19: until the first run a run is pending and the display is output ""
\* and error null; with no buffer change the timer started at the first
\* render runs out one quiet period after it.
C19_StartupRun ==
    /\ ~lastRun.ran =>
           /\ timer.pending
           /\ output = EmptyString
           /\ error = Null
    /\ AtStartup => timer.remaining = QuietPeriod - sinceChange

\* the run scheduled at the first render has displayed the restored buffers
C19_Witness ==
    /\ lastRun.ran
    /\ lastRun.changes = 0
    /\ changesSinceRun = 0
    /\ sinceChange = QuietPeriod
    /\ xmlCode = SmallDocument
    /\ output # EmptyString

====
